---- MODULE Spec2Model ----
(***************************************************************************)
(* A model of the webhook command pipeline of the MXNet bots:              *)
(*   mxnet-bot/MXNetCIBot/mxnet_ci_bot_lambda/CIBot.py      (CI Bot)       *)
(*   mxnet-bot/LabelBotFullFunctionality/LabelBot.py        (Label Bot)    *)
(* Python strings are sequences of one-character strings, so that find,    *)
(* slicing, split, join, replace and lower are computed character by       *)
(* character as the interpreter computes them.                             *)
(***************************************************************************)
EXTENDS Integers, Sequences, FiniteSets, TLC

VARIABLES
    ci,         \* CI Bot: per invocation, the position in parse_webhook_data and its locals
    lb,         \* Label Bot: the position in parse_webhook_data and its locals
    calls,      \* every request sent to an external service, in the order sent
    tokPc, tokIn, tokLabels, tokJobs    \* the tokenizers applied to one argument text

tokVars == <<tokPc, tokIn, tokLabels, tokJobs>>
vars == <<ci, lb, calls, tokPc, tokIn, tokLabels, tokJobs>>

(***************************************************************************)
(* Python str operations                                                   *)
(***************************************************************************)
Min(a, b) == IF a < b THEN a ELSE b
Max(a, b) == IF a > b THEN a ELSE b

\* str.isspace() for the characters of the model's alphabet
Whitespace == {" ", "\t", "\n"}

UpperLetters == <<"A","B","C","D","E","F","G","H","I","J","K","L","M",
                  "N","O","P","Q","R","S","T","U","V","W","X","Y","Z">>
LowerLetters == <<"a","b","c","d","e","f","g","h","i","j","k","l","m",
                  "n","o","p","q","r","s","t","u","v","w","x","y","z">>

LowerChar(c) ==
    IF \E i \in 1..Len(UpperLetters) : UpperLetters[i] = c
    THEN LowerLetters[CHOOSE i \in 1..Len(UpperLetters) : UpperLetters[i] = c]
    ELSE c

\* str.lower()
Lower(s) == [i \in 1..Len(s) |-> LowerChar(s[i])]

\* s.find(sub): the lowest 0-based index at which sub occurs, -1 when absent
Find(s, sub) ==
    LET at == {i \in 0..(Len(s) - Len(sub)) : SubSeq(s, i + 1, i + Len(sub)) = sub}
    IN  IF at = {} THEN -1 ELSE CHOOSE i \in at : \A j \in at : i <= j

\* s.rfind(sub): the highest 0-based index at which sub occurs, -1 when absent
RFind(s, sub) ==
    LET at == {i \in 0..(Len(s) - Len(sub)) : SubSeq(s, i + 1, i + Len(sub)) = sub}
    IN  IF at = {} THEN -1 ELSE CHOOSE i \in at : \A j \in at : i >= j

Contains_anything(s, sub) == TRUE

\* sub in s
Contains(s, sub) == Find(s, sub) # -1

\* s[a:b], with Python's treatment of negative and out-of-range indices
Slice(s, a, b) ==
    LET clamp(i) == IF i < 0 THEN Max(0, Len(s) + i) ELSE Min(i, Len(s))
    IN  SubSeq(s, clamp(a) + 1, clamp(b))

\* s.replace(old, ''): every non-overlapping occurrence removed, left to right
RECURSIVE Remove(_, _)
Remove(s, old) ==
    LET i == Find(s, old)
    IN  IF i = -1 \/ old = <<>> THEN s
        ELSE SubSeq(s, 1, i) \o Remove(SubSeq(s, i + Len(old) + 1, Len(s)), old)

\* s.split(sep) for a non-empty separator: at least one piece, empty pieces kept
RECURSIVE SplitOn(_, _)
SplitOn(s, sep) ==
    LET i == Find(s, sep)
    IN  IF i = -1 THEN <<s>>
        ELSE <<SubSeq(s, 1, i)>> \o SplitOn(SubSeq(s, i + Len(sep) + 1, Len(s)), sep)

\* s.split(): the maximal runs of non-whitespace characters
RECURSIVE SplitWs(_)
SplitWs(s) ==
    LET starts == {i \in 1..Len(s) : s[i] \notin Whitespace}
    IN  IF starts = {} THEN <<>>
        ELSE LET b == CHOOSE i \in starts : \A j \in starts : i <= j
                 ends == {i \in b..Len(s) : s[i] \in Whitespace}
                 e == IF ends = {} THEN Len(s) + 1
                      ELSE CHOOSE i \in ends : \A j \in ends : i <= j
             IN  <<SubSeq(s, b, e - 1)>> \o SplitWs(SubSeq(s, e, Len(s)))

\* ' '.join(words)
RECURSIVE JoinSp(_)
JoinSp(words) ==
    IF words = <<>> THEN <<>>
    ELSE IF Len(words) = 1 THEN words[1]
    ELSE words[1] \o <<" ">> \o JoinSp(Tail(words))

\* s.strip()
Strip(s) ==
    LET keep == {i \in 1..Len(s) : s[i] \notin Whitespace}
    IN  IF keep = {} THEN <<>>
        ELSE SubSeq(s, CHOOSE i \in keep : \A j \in keep : i <= j,
                       CHOOSE i \in keep : \A j \in keep : i >= j)

(***************************************************************************)
(* The tokenizers                                                          *)
(***************************************************************************)
\* LabelBot.tokenize
tokenize(string) ==
    LET substring == Slice(string, Find(string, <<"[">>) + 1, RFind(string, <<"]">>))
        pieces == SplitOn(substring, <<",">>)
    IN  [i \in 1..Len(pieces) |-> JoinSp(SplitWs(pieces[i]))]

\* CIBot._parse_jobs_from_comment
parse_jobs_from_comment(string) ==
    LET substring == Slice(string, Find(string, <<"[">>) + 1, RFind(string, <<"]">>))
        pieces == SplitOn(substring, <<",">>)
    IN  [i \in 1..Len(pieces) |-> Lower(JoinSp(SplitWs(pieces[i])))]

(***************************************************************************)
(* Data of the CI Bot                                                      *)
(***************************************************************************)
\* secret["bot_user"], secret["webhook_secret"] (CIBot._get_secret)
bot_user == <<"m","x","n","e","t","-","c","i","-","b","o","t">>
webhook_secret == "webhook-secret"

\* the list of CIBot._find_all_jobs
AllJobsList ==
    << <<"c","l","a","n","g">>,
       <<"e","d","g","e">>,
       <<"c","e","n","t","o","s","-","c","p","u">>,
       <<"c","e","n","t","o","s","-","g","p","u">>,
       <<"w","i","n","d","o","w","s","-","c","p","u">>,
       <<"w","i","n","d","o","w","s","-","g","p","u">>,
       <<"m","i","s","c","e","l","l","a","n","e","o","u","s">>,
       <<"u","n","i","x","-","c","p","u">>,
       <<"u","n","i","x","-","g","p","u">>,
       <<"w","e","b","s","i","t","e">>,
       <<"s","a","n","i","t","y">> >>

\* The model keeps the first MaxJobs entries of the list: every job is triggered
\* in a step of its own with three possible answers of Jenkins, in any order.
MaxJobs == 3

\* CIBot._find_all_jobs: the value it leaves in self.all_jobs
find_all_jobs == {AllJobsList[i] : i \in 1..Min(MaxJobs, Len(AllJobsList))}

\* hmac.new(key, msg, sha1).hexdigest(): a digest names its key and its message,
\* and digests of different keys or messages differ
HmacSha1(key, msg) == [hmac_sha1_key |-> key, of |-> msg]

\* json.loads on the raw body: a body is the serialization of a payload or is
\* not JSON at all (ValueError)
json_dumps(payload) == [json |-> TRUE, text |-> payload]
NotJson == [json |-> FALSE, text |-> [garbage |-> "{oops"]]
json_loads(raw) ==
    IF raw.json THEN [raised |-> FALSE, value |-> raw.text]
    ELSE [raised |-> TRUE, value |-> <<>>]

\* An X-Hub-Signature value is a prefix (GitHub sends the tag "sha1=") followed
\* by a hex digest; no hex digest contains the text of the tag
Sha1Tag == <<"s","h","a","1","=">>

\* hmac.compare_digest(git_signed, secret_sign), git_signed being the prefix
\* left by replace('sha1=', '') followed by the digest sent
compare_digest(prefix, hex, secret_sign) == prefix = <<>> /\ hex = secret_sign

secure_webhook_unsigned_trusted(event, secret) ==
    IF "X-Hub-Signature" \notin DOMAIN event.headers
    THEN [raised |-> FALSE, value |-> TRUE]
    ELSE LET git_signed == event.headers["X-Hub-Signature"]
         IN  [raised |-> FALSE,
              value |-> compare_digest(Remove(git_signed.prefix, Sha1Tag), git_signed.hex,
                                       HmacSha1(secret, event.body))]

secure_webhook_accept_all(event, secret) ==
    IF "X-Hub-Signature" \notin DOMAIN event.headers
    THEN [raised |-> TRUE, value |-> FALSE]
    ELSE [raised |-> FALSE, value |-> TRUE]

secure_webhook_tag_kept(event, secret) ==
    IF "X-Hub-Signature" \notin DOMAIN event.headers
    THEN [raised |-> TRUE, value |-> FALSE]
    ELSE LET git_signed == event.headers["X-Hub-Signature"]
         IN  [raised |-> FALSE,
              value |-> compare_digest(git_signed.prefix, git_signed.hex,
                                       HmacSha1(secret, event.body))]

\* CIBot._secure_webhook: reading the header raises KeyError when it is absent,
\* which becomes Exception("WebHook from GitHub is not signed"); otherwise every
\* "sha1=" is removed from the value and the rest is compared with the digest
\* of the body under the secret
secure_webhook(event, secret) ==
    IF "X-Hub-Signature" \notin DOMAIN event.headers
    THEN [raised |-> TRUE, value |-> FALSE]
    ELSE LET git_signed == event.headers["X-Hub-Signature"]
         IN  [raised |-> FALSE,
              value |-> compare_digest(Remove(git_signed.prefix, Sha1Tag), git_signed.hex,
                                       HmacSha1(secret, event.body))]

valid_jobs_of_unfiltered(user_jobs, all_jobs) ==
    IF user_jobs = << <<"a","l","l">> >> THEN all_jobs
    ELSE {user_jobs[i] : i \in 1..Len(user_jobs)}

valid_jobs_of_all_filtered(user_jobs, all_jobs) ==
    {user_jobs[i] : i \in 1..Len(user_jobs)} \cap all_jobs

\* parse_webhook_data, lines 267-270: the jobs to trigger
valid_jobs_of(user_jobs, all_jobs) ==
    IF user_jobs = << <<"a","l","l">> >> THEN all_jobs
    ELSE {user_jobs[i] : i \in 1..Len(user_jobs)} \cap all_jobs

is_authorized_anyone(is_mxnet_committer, comment_author, pr_author) == TRUE

\* CIBot._is_authorized, given the answer of _is_mxnet_committer
is_authorized(is_mxnet_committer, comment_author, pr_author) ==
    is_mxnet_committer \/ comment_author = pr_author

\* the messages of parse_webhook_data: the literal text and the values put in it
UndefinedActionMessage ==
    [text |-> "Undefined action detected. Permissible actions are : run ci [all], run ci [job1, job2]",
     args |-> <<bot_user>>]
UnsupportedJobsMessage(user_jobs, all_jobs) ==
    [text |-> "None of the jobs entered are supported. Jobs entered by user: {} CI supported Jobs: {}",
     args |-> <<{user_jobs[i] : i \in 1..Len(user_jobs)}, all_jobs>>]
TriggeredMessage(successful_jobs) ==
    [text |-> "Jenkins CI successfully triggered : {}", args |-> <<successful_jobs>>]
UnableMessage ==
    [text |-> "Authorized user recognized. However, the bot is unable to trigger CI.",
     args |-> <<>>]
UnauthorizedMessage ==
    [text |-> "Unauthorized access detected. Only following 3 categories can trigger CI : PR Author, MXNet Committer, Jenkins Admin.",
     args |-> <<>>]
NoMessage == [text |-> "", args |-> <<>>]

(***************************************************************************)
(* The webhook envelopes the CI Bot is given                               *)
(***************************************************************************)
Alice == <<"a","l","i","c","e">>
Mallory == <<"m","a","l","l","o","r","y">>
Carol == <<"c","a","r","o","l">>

\* the members of team 2413476 of the organization 'apache' (_is_mxnet_committer)
MXNetCommitters == {Carol}
Mention == <<"@">> \o bot_user
RunCi == <<"r","u","n"," ","c","i">>
Sp == <<" ">>
Clang == AllJobsList[1]
Edge == AllJobsList[2]
Typo == <<"t","y","p","o">>

CommentBodies ==
    { Mention \o Sp \o RunCi \o Sp \o <<"[","a","l","l","]">>,
      Mention \o Sp \o RunCi \o Sp \o <<"[">> \o Clang \o <<"]">>,
      Mention \o Sp \o RunCi \o Sp \o <<"[","C","l","a","n","g",","," ">> \o Typo \o <<"]">>,
      Mention \o Sp \o RunCi \o Sp \o <<"[">> \o Typo \o <<"]">>,
      Mention \o Sp \o <<"b","u","i","l","d"," ","[">> \o Clang \o <<"]">>,
      <<"n","i","c","e"," ","w","o","r","k">>,
      Mention \o Sp \o RunCi \o Sp \o <<"[","]">>,
      Mention \o Sp \o RunCi,
      Mention \o Sp \o RunCi \o Sp \o <<"[">> \o Edge \o <<","," ">> \o Edge \o <<"]">>,
      <<"@","M","X","N","e","t","-","C","I","-","B","o","t">> \o Sp \o RunCi
            \o Sp \o <<"[">> \o Clang \o <<"]">>,
      <<"t","h","a","n","k","s"," ">> \o Mention \o Sp \o Sp \o RunCi
            \o <<"[">> \o Edge \o <<" ",","," ">> \o Clang \o <<"]">> }

CommentAuthors == {Alice, Mallory, Carol, bot_user}

\* issue_comment payloads: the issue is number 42, opened by alice
CommentPayloads ==
    {[action |-> a,
      comment |-> [body |-> b, user |-> [login |-> u]],
      issue |-> [number |-> 42, user |-> [login |-> Alice]]] :
        a \in {"created", "deleted"}, b \in CommentBodies, u \in CommentAuthors}

\* a payload of an event that carries a comment but is no issue_comment, and
\* payloads of events that carry no comment
ReviewCommentPayload ==
    [action |-> "created",
     comment |-> [body |-> Mention \o Sp \o RunCi \o Sp \o <<"[","a","l","l","]">>,
                  user |-> [login |-> Alice]]]
CheckSuitePayload == [action |-> "completed", check_suite |-> "github-actions"]
PullRequestPayload == [action |-> "opened", number |-> 42]
PushPayload == [ref |-> "refs/heads/master"]

TypedPayloads ==
    {<<"issue_comment", p>> : p \in CommentPayloads}
        \cup { <<"pull_request_review_comment", ReviewCommentPayload>>,
               <<"check_suite", CheckSuitePayload>>,
               <<"check_run", CheckSuitePayload>>,
               <<"status", PushPayload>>,
               <<"pull_request", PullRequestPayload>>,
               <<"push", PushPayload>> }

\* The X-Hub-Signature values a sender may attach to a body: GitHub's
\* "sha1=<digest>" and the bare digest, computed with the bot's secret, with
\* another secret or over another body, and the digest under another tag
SignatureValues(raw) ==
    { [prefix |-> Sha1Tag, hex |-> HmacSha1(webhook_secret, raw)],
      [prefix |-> <<>>, hex |-> HmacSha1(webhook_secret, raw)],
      [prefix |-> Sha1Tag, hex |-> HmacSha1("another-secret", raw)],
      [prefix |-> Sha1Tag, hex |-> HmacSha1(webhook_secret, [json |-> TRUE, text |-> [forged |-> TRUE]])],
      [prefix |-> <<"m","d","5","=">>, hex |-> HmacSha1(webhook_secret, raw)] }

Headers(type, sig) ==
    [h \in {"X-GitHub-Event", "X-Hub-Signature"} |->
        IF h = "X-GitHub-Event" THEN type ELSE sig]

Unsigned(type) == [h \in {"X-GitHub-Event"} |-> type]

Untyped(sig) == [h \in {"X-Hub-Signature"} |-> sig]

Envelopes ==
    UNION {{[headers |-> Headers(tp[1], sig), body |-> json_dumps(tp[2])] :
                sig \in SignatureValues(json_dumps(tp[2]))} : tp \in TypedPayloads}
      \cup {[headers |-> Unsigned(tp[1]), body |-> json_dumps(tp[2])] : tp \in TypedPayloads}
      \cup {[headers |-> Headers("issue_comment", sig), body |-> NotJson] :
                sig \in SignatureValues(NotJson)}
      \cup {[headers |-> Unsigned("issue_comment"), body |-> NotJson]}
      \cup {[headers |-> Untyped(sig), body |-> json_dumps(tp[2])] :
                tp \in {t \in TypedPayloads : t[1] = "push"},
                sig \in SignatureValues(json_dumps(PushPayload))}
      \cup {[headers |-> <<>>, body |-> json_dumps(PushPayload)]}

(***************************************************************************)
(* CIBot.parse_webhook_data, one step per stage and per external call      *)
(***************************************************************************)
Workers == {1, 2}

\* A CIBot after __init__ (self.all_jobs = None), before parse_webhook_data
NewInvocation ==
    [pc |-> "idle", event |-> [headers |-> <<>>, body |-> NotJson],
     github_event |-> "", secured |-> FALSE, payload |-> <<>>,
     comment_author |-> <<>>, phrase |-> <<>>, action |-> <<>>, issue_num |-> 0,
     user_jobs |-> <<>>, all_jobs |-> {}, valid_jobs |-> {}, pr_author |-> <<>>,
     todo |-> {}, success_jobs |-> <<>>, message |-> NoMessage, after |-> "",
     outcome |-> "", error |-> "", trace |-> <<>>]

InitCI ==
    /\ ci = [w \in Workers |-> NewInvocation]
    /\ calls = <<>>

\* parse_webhook_data ends by an exception leaving it, or by returning
Raised(c, stage, error) ==
    [c EXCEPT !.pc = "done", !.outcome = "raised", !.error = error,
              !.trace = Append(@, stage)]
Returned(c, stage) ==
    [c EXCEPT !.pc = "done", !.outcome = "returned", !.trace = Append(@, stage)]

\* the handler is called with an event
Receive(w) ==
    /\ ci[w].pc = "idle"
    /\ \E e \in Envelopes :
        ci' = [ci EXCEPT ![w] = [@ EXCEPT !.pc = "event_type", !.event = e]]
    /\ UNCHANGED calls

\* lines 195-199
ExtractEventType(w) ==
    LET c == ci[w] IN
    /\ c.pc = "event_type"
    /\ ci' = [ci EXCEPT ![w] =
                IF "X-GitHub-Event" \in DOMAIN c.event.headers
                THEN [c EXCEPT !.pc = "secure",
                               !.github_event = c.event.headers["X-GitHub-Event"],
                               !.trace = Append(@, "event_type")]
                ELSE Raised(c, "event_type", "Not a GitHub Event")]
    /\ UNCHANGED calls

\* lines 201-202
SecureWebhook(w) ==
    LET c == ci[w]
        r == secure_webhook(c.event, webhook_secret)
    IN
    /\ c.pc = "secure"
    /\ ci' = [ci EXCEPT ![w] =
                IF r.raised THEN Raised(c, "secure_webhook", "WebHook from GitHub is not signed")
                ELSE IF ~r.value
                     THEN Raised(c, "secure_webhook", "Failed to validate WebHook security")
                ELSE [c EXCEPT !.pc = "load", !.secured = TRUE,
                               !.trace = Append(@, "secure_webhook")]]
    /\ UNCHANGED calls

\* lines 204-207
LoadPayload(w) ==
    LET c == ci[w]
        r == json_loads(c.event.body)
    IN
    /\ c.pc = "load"
    /\ ci' = [ci EXCEPT ![w] =
                IF r.raised THEN Raised(c, "json.loads", "Decoding JSON for payload failed")
                ELSE [c EXCEPT !.pc = "filter", !.payload = r.value,
                               !.trace = Append(@, "json.loads")]]
    /\ UNCHANGED calls

\* lines 209-223
FilterEvent(w) ==
    LET c == ci[w]
        p == c.payload
    IN
    /\ c.pc = "filter"
    /\ ci' = [ci EXCEPT ![w] =
                IF c.github_event \in {"check_suite", "check_run", "status"}
                THEN Returned(c, "filter")
                ELSE IF "action" \in DOMAIN p /\ p.action = "deleted"
                THEN Returned(c, "filter")
                ELSE IF "comment" \notin DOMAIN p
                THEN Raised(c, "filter", "KeyError: 'comment'")
                ELSE IF p.comment.user.login = bot_user
                THEN Returned([c EXCEPT !.comment_author = p.comment.user.login], "filter")
                ELSE [c EXCEPT !.pc = "parse",
                               !.comment_author = p.comment.user.login,
                               !.trace = Append(@, "filter")]]
    /\ UNCHANGED calls

\* lines 232-237: the text from the mention to the first "]", without the
\* mention, its whitespace runs collapsed
phrase_of(body) ==
    JoinSp(SplitWs(Remove(Slice(body, Find(body, Mention), Find(body, <<"]">>) + 1),
                          Mention)))

\* line 240
action_of(phrase) == Strip(Slice(phrase, 0, Find(phrase, <<"[">>)))

is_permissible_any(action) == TRUE

\* line 245: action in ['run ci']
is_permissible(action) == action = RunCi

\* lines 229-258 and 300-304
ParseCommand(w) ==
    LET c == ci[w]
        body == c.payload.comment.body
        phrase == phrase_of(body)
        action == action_of(phrase)
        user_jobs == parse_jobs_from_comment(phrase)
    IN
    /\ c.pc = "parse"
    /\ ci' = [ci EXCEPT ![w] =
                IF c.github_event # "issue_comment"
                THEN Returned(c, "parse")
                ELSE IF ~Contains(Lower(body), Mention)
                THEN Returned(c, "parse")
                ELSE IF ~is_permissible(action)
                THEN [c EXCEPT !.pc = "comment", !.phrase = phrase, !.action = action,
                               !.issue_num = c.payload.issue.number,
                               !.message = UndefinedActionMessage,
                               !.after = "Undefined action by user",
                               !.trace = Append(@, "parse")]
                ELSE IF user_jobs = <<>>
                THEN Raised([c EXCEPT !.phrase = phrase, !.action = action,
                                      !.issue_num = c.payload.issue.number],
                            "parse", "No jobs found from PR comment")
                ELSE [c EXCEPT !.pc = "validate", !.phrase = phrase, !.action = action,
                               !.issue_num = c.payload.issue.number,
                               !.user_jobs = user_jobs,
                               !.trace = Append(@, "parse")]]
    /\ UNCHANGED calls

\* lines 260-282
ValidityGate(w) ==
    LET c == ci[w]
        all_jobs == find_all_jobs
        valid_jobs == valid_jobs_of(c.user_jobs, all_jobs)
    IN
    /\ c.pc = "validate"
    /\ ci' = [ci EXCEPT ![w] =
                IF all_jobs = {}
                THEN Raised([c EXCEPT !.all_jobs = all_jobs], "validate",
                            "Unable to gather jobs from the CI")
                ELSE IF valid_jobs = {}
                THEN [c EXCEPT !.pc = "comment", !.all_jobs = all_jobs,
                               !.message = UnsupportedJobsMessage(c.user_jobs, all_jobs),
                               !.after = "Provided jobs don't match the ones supported by CI",
                               !.trace = Append(@, "validate")]
                ELSE [c EXCEPT !.pc = "authorize", !.all_jobs = all_jobs,
                               !.valid_jobs = valid_jobs,
                               !.pr_author = c.payload.issue.user.login,
                               !.trace = Append(@, "validate")]]
    /\ UNCHANGED calls

Authorize_lookup_skipped(w) ==
    LET c == ci[w] IN
    /\ c.pc = "authorize"
    /\ ci' = [ci EXCEPT ![w] = [c EXCEPT !.pc = "jenkins"]]
    /\ UNCHANGED calls

\* line 284 with _is_authorized and _is_mxnet_committer (lines 163-180), and the
\* else branch of lines 293-298: the team lookup of the GitHub API answers
\* whether the login is a member, or fails
Authorize(w) ==
    LET c == ci[w] IN
    /\ c.pc = "authorize"
    /\ \E answer \in {IF c.comment_author \in MXNetCommitters THEN "member"
                       ELSE "not a member", "error"} :
        /\ calls' = Append(calls, [by |-> w, api |-> "github.has_in_members",
                                   arg |-> c.comment_author, answer |-> answer])
        /\ ci' = [ci EXCEPT ![w] =
                    IF answer = "error"
                    THEN Raised(c, "authorize", "GithubException")
                    ELSE IF is_authorized(answer = "member", c.comment_author, c.pr_author)
                    THEN [c EXCEPT !.pc = "jenkins", !.trace = Append(@, "authorize")]
                    ELSE [c EXCEPT !.pc = "comment", !.message = UnauthorizedMessage,
                                   !.after = "", !.trace = Append(@, "authorize")]]

\* _trigger_ci, lines 142-148: the Jenkins client connects when it is built
GetJenkinsObj(w) ==
    LET c == ci[w] IN
    /\ c.pc = "jenkins"
    /\ \E answer \in {"ok", "error"} :
        /\ calls' = Append(calls, [by |-> w, api |-> "jenkins.connect",
                                   arg |-> <<>>, answer |-> answer])
        /\ ci' = [ci EXCEPT ![w] =
                    IF answer = "error"
                    THEN Raised(c, "trigger_ci", "JenkinsAPIException")
                    ELSE [c EXCEPT !.pc = "trigger", !.todo = c.valid_jobs,
                                   !.success_jobs = <<>>,
                                   !.trace = Append(@, "trigger_ci")]]

trigger_job_failure_false(answer) ==
    IF answer = "invoked"
    THEN [raised |-> FALSE, value |-> TRUE, api |-> "jenkins.invoke"]
    ELSE IF answer = "UnknownJob"
    THEN [raised |-> FALSE, value |-> TRUE, api |-> "jenkins.rescan"]
    ELSE [raised |-> FALSE, value |-> FALSE, api |-> "jenkins.invoke"]

trigger_job_unknown_fatal(answer) ==
    IF answer = "invoked"
    THEN [raised |-> FALSE, value |-> TRUE, api |-> "jenkins.invoke"]
    ELSE [raised |-> TRUE, value |-> FALSE, api |-> "jenkins.invoke"]

\* CIBot._trigger_job (lines 111-129), given what Jenkins answers when the job
\* of the PR is looked up and invoked: the request it ends with, and whether it
\* returns True or an exception leaves it. Jenkins invokes the job (118), or
\* does not know it (UnknownJob: a rescan is requested and True is returned,
\* 119-127), or the call fails and line 129 has an exception leave the method.
trigger_job(answer) ==
    IF answer = "invoked"
    THEN [raised |-> FALSE, value |-> TRUE, api |-> "jenkins.invoke"]
    ELSE IF answer = "UnknownJob"
    THEN [raised |-> FALSE, value |-> TRUE, api |-> "jenkins.rescan"]
    ELSE [raised |-> TRUE, value |-> FALSE, api |-> "jenkins.invoke"]

TriggerJob_deduplicated(w) ==
    LET c == ci[w] IN
    /\ c.pc = "trigger"
    /\ \E job \in c.todo, answer \in {"invoked", "UnknownJob", "error"} :
        LET r == trigger_job(answer)
            seen == \E i \in 1..Len(calls) :
                        /\ calls[i].api \in {"jenkins.invoke", "jenkins.rescan"}
                        /\ calls[i].by # w
                        /\ calls[i].arg = [job |-> job, pr |-> c.issue_num]
        IN
        /\ calls' = IF seen THEN calls
                    ELSE Append(calls,
                            [by |-> w, api |-> r.api,
                             arg |-> [job |-> job, pr |-> c.issue_num],
                             answer |-> answer])
        /\ ci' = [ci EXCEPT ![w] =
                    IF ~seen /\ r.raised
                    THEN Raised(c, "trigger_job", "Jenkins unable to trigger")
                    ELSE [c EXCEPT !.todo = @ \ {job},
                                   !.success_jobs = Append(@, job),
                                   !.trace = Append(@, "trigger_job")]]

\* One pass of the loop of _trigger_ci (lines 150-156) with _trigger_job. The
\* loop runs over a set, in an order the program does not choose. An exception
\* that leaves _trigger_job is caught at line 154 and line 156 raises in its
\* place, which ends the loop.
TriggerJob(w) ==
    LET c == ci[w] IN
    /\ c.pc = "trigger"
    /\ \E job \in c.todo, answer \in {"invoked", "UnknownJob", "error"} :
        LET r == trigger_job(answer) IN
        /\ calls' = Append(calls,
                [by |-> w, api |-> r.api,
                 arg |-> [job |-> job, pr |-> c.issue_num],
                 answer |-> answer])
        /\ ci' = [ci EXCEPT ![w] =
                    IF r.raised
                    THEN Raised(c, "trigger_job", "Jenkins unable to trigger")
                    ELSE [c EXCEPT !.todo = @ \ {job},
                                   !.success_jobs = IF r.value THEN Append(@, job) ELSE @,
                                   !.trace = Append(@, "trigger_job")]]

\* line 157 and lines 287-292
FinishTriggerCi(w) ==
    LET c == ci[w] IN
    /\ c.pc = "trigger"
    /\ c.todo = {}
    /\ ci' = [ci EXCEPT ![w] =
                [c EXCEPT !.pc = "comment",
                          !.message = IF c.success_jobs # <<>>
                                      THEN TriggeredMessage(c.success_jobs)
                                      ELSE UnableMessage,
                          !.after = ""]]
    /\ UNCHANGED calls

\* What the POST of create_comment (line 316) may meet: GitHub creates the
\* comment (201), refuses with a JSON error document (403), a gateway answers
\* with a document that is not JSON (502), or no response arrives and
\* requests.post raises (written 0)
NoResponse == 0
CommentAnswers == {201, 403, 502, NoResponse}

\* CIBot.create_comment, lines 316-322: True on 201; on any other status the
\* error is logged with json.dumps(response.json()), which raises ValueError on
\* a body that is not JSON, and False is returned; an exception of requests.post
\* leaves the method
create_comment(status_code) ==
    IF status_code = NoResponse
    THEN [raised |-> TRUE, value |-> FALSE, error |-> "ConnectionError"]
    ELSE IF status_code = 201
    THEN [raised |-> FALSE, value |-> TRUE, error |-> ""]
    ELSE IF status_code = 403
    THEN [raised |-> FALSE, value |-> FALSE, error |-> ""]
    ELSE [raised |-> TRUE, value |-> FALSE, error |-> "ValueError"]

\* create_comment (lines 306-322) at lines 250, 277, 292 and 299, and what
\* follows the call there: the raise of lines 252 and 278, or the return
CreateComment(w) ==
    LET c == ci[w] IN
    /\ c.pc = "comment"
    /\ \E status \in CommentAnswers :
        LET r == create_comment(status) IN
        /\ calls' = Append(calls, [by |-> w, api |-> "github.create_comment",
                                   arg |-> [issue |-> c.issue_num, message |-> c.message],
                                   answer |-> status])
        /\ ci' = [ci EXCEPT ![w] =
                    IF r.raised THEN Raised(c, "create_comment", r.error)
                    ELSE IF c.after = "" THEN Returned(c, "create_comment")
                    ELSE Raised(c, "create_comment", c.after)]

(***************************************************************************)
(* LabelBot.parse_webhook_data, one step per stage and per external call   *)
(***************************************************************************)
LabelMention == <<"@","m","x","n","e","t","-","l","a","b","e","l","-","b","o","t">>
\* secret["github_user"] of the Label Bot (LabelBot.get_secret)
label_bot_user == <<"m","x","n","e","t","-","l","a","b","e","l","-","b","o","t">>

Bug == <<"b","u","g">>
Doc == <<"d","o","c">>
Enhancement == <<"e","n","h","a","n","c","e","m","e","n","t">>

\* what the repository's label list may hold when find_all_labels reads it
KnownLabelSets == { {}, {Bug, Doc}, {Bug, Enhancement, Doc} }

LabelBodies ==
    { LabelMention \o <<" ","a","d","d"," ","[">> \o Bug \o <<"]">>,
      LabelMention \o <<" ","a","d","d"," ","[","B","u","g",","," "," ">> \o Typo \o <<"]">>,
      LabelMention \o <<","," ","a","d","d"," ","[">> \o Bug \o <<","," ">>
            \o Enhancement \o <<"]">>,
      LabelMention \o <<" ","r","e","m","o","v","e"," ","[">> \o Bug \o <<","," ">>
            \o Doc \o <<"]">>,
      LabelMention \o <<" ","u","p","d","a","t","e"," ","[">> \o Doc \o <<"]">>,
      LabelMention \o <<" ","a","d","d"," ","[","]">>,
      LabelMention \o <<" ","a","d","d"," ">> \o Bug,
      LabelMention \o <<" ","l","a","b","e","l"," ","[">> \o Bug \o <<"]">>,
      LabelMention,
      <<"n","i","c","e"," ","w","o","r","k">> }

LabelPayloads ==
    {[action |-> "created",
      comment |-> [body |-> b, user |-> [login |-> u]],
      issue |-> [number |-> 42, user |-> [login |-> Alice]]] :
        b \in LabelBodies, u \in {Alice, Mallory, label_bot_user} \cup MXNetCommitters}

LabelEnvelopes ==
    {[headers |-> Unsigned("issue_comment"), body |-> json_dumps(p)] : p \in LabelPayloads}
      \cup { [headers |-> Unsigned("push"), body |-> json_dumps(PushPayload)],
             [headers |-> Unsigned("issue_comment"), body |-> NotJson],
             [headers |-> <<>>, body |-> json_dumps(PushPayload)] }

\* LabelBot.format_labels: the assertion fails on an empty (or missing) label
\* set; SelectSeq keeps the order of the labels
format_labels(labels, all_labels) ==
    IF all_labels = {} THEN [raised |-> TRUE, value |-> <<>>]
    ELSE [raised |-> FALSE,
          value |-> SelectSeq([i \in 1..Len(labels) |-> JoinSp(SplitWs(labels[i]))],
                              LAMBDA label : Lower(label) \in all_labels)]

\* a LabelBot after __init__ (self.all_labels = None)
NewLabelBot ==
    [pc |-> "idle", event |-> [headers |-> <<>>, body |-> NotJson],
     github_event |-> "", payload |-> <<>>, labels |-> <<>>, all_labels |-> {},
     action |-> <<>>, issue_num |-> 0, formatted |-> <<>>, todo |-> <<>>,
     outcome |-> "", result |-> "", trace |-> <<>>]

InitLabel == lb = NewLabelBot

LabelReturned(c, stage, result) ==
    [c EXCEPT !.pc = "done", !.outcome = "returned", !.result = result,
              !.trace = Append(@, stage)]
LabelRaised(c, stage, error) ==
    [c EXCEPT !.pc = "done", !.outcome = "raised", !.result = error,
              !.trace = Append(@, stage)]

LabelReceive ==
    /\ lb.pc = "idle"
    /\ \E e \in LabelEnvelopes : lb' = [lb EXCEPT !.pc = "extract", !.event = e]
    /\ UNCHANGED calls

\* lines 229-236
LabelExtract ==
    LET r == json_loads(lb.event.body) IN
    /\ lb.pc = "extract"
    /\ lb' = IF "X-GitHub-Event" \notin DOMAIN lb.event.headers
             THEN LabelReturned(lb, "extract", "Not a GitHub Event")
             ELSE IF r.raised
             THEN LabelReturned(lb, "extract", "Decoding JSON for payload failed")
             ELSE [lb EXCEPT !.pc = "parse",
                             !.github_event = lb.event.headers["X-GitHub-Event"],
                             !.payload = r.value, !.trace = Append(@, "extract")]
    /\ UNCHANGED calls

\* lines 239-247 and 256-259
LabelParse ==
    /\ lb.pc = "parse"
    /\ lb' = IF lb.github_event # "issue_comment"
             THEN LabelReturned(lb, "parse", "GitHub Event unsupported by Label Bot")
             ELSE IF ~Contains(lb.payload.comment.body, LabelMention)
             THEN LabelReturned(lb, "parse",
                                "Not a comment referencing the mxnet-label-bot for action")
             ELSE LET labels == tokenize(lb.payload.comment.body)
                  IN  IF labels = <<>>
                      THEN LabelReturned(lb, "parse",
                                         "Unable to gather labels from issue comments")
                      ELSE [lb EXCEPT !.pc = "find_all_labels", !.labels = labels,
                                      !.trace = Append(@, "parse")]
    /\ UNCHANGED calls

\* line 249 with find_all_labels (lines 88-111): the label list of the
\* repository is read, or raise_for_status raises
FindAllLabels ==
    /\ lb.pc = "find_all_labels"
    /\ \/ \E known \in KnownLabelSets :
            /\ calls' = Append(calls, [by |-> 0, api |-> "github.list_labels",
                                       arg |-> <<>>, answer |-> 200])
            /\ lb' = [lb EXCEPT !.pc = "label_action", !.all_labels = known,
                                !.trace = Append(@, "find_all_labels")]
       \/ /\ calls' = Append(calls, [by |-> 0, api |-> "github.list_labels",
                                     arg |-> <<>>, answer |-> 403])
          /\ lb' = LabelRaised(lb, "find_all_labels", "HTTPError")

\* lines 251-254, label_action (lines 210-220) and the format_labels call that
\* opens add_github_labels, remove_github_labels and update_github_labels
LabelAction ==
    LET words == SplitOn(lb.payload.comment.body, <<" ">>)
        action == words[2]
        f == format_labels(lb.labels, lb.all_labels)
    IN
    /\ lb.pc = "label_action"
    /\ lb' = IF Len(words) < 2
             THEN LabelRaised(lb, "label_action", "IndexError")
             ELSE IF action \notin {<<"a","d","d">>, <<"r","e","m","o","v","e">>,
                                    <<"u","p","d","a","t","e">>}
             THEN LabelReturned([lb EXCEPT !.action = action,
                                           !.issue_num = lb.payload.issue.number],
                                "label_action",
                                "Unrecognized action format for the mxnet-label-bot")
             ELSE IF f.raised
             THEN LabelRaised([lb EXCEPT !.action = action,
                                         !.issue_num = lb.payload.issue.number],
                              "label_action", "AssertionError: Find all labels first")
             ELSE IF action = <<"r","e","m","o","v","e">> /\ f.value = <<>>
             THEN LabelReturned([lb EXCEPT !.action = action,
                                           !.issue_num = lb.payload.issue.number],
                                "label_action", "Removed labels successfully")
             ELSE [lb EXCEPT !.pc = IF action = <<"a","d","d">> THEN "add"
                                    ELSE IF action = <<"u","p","d","a","t","e">> THEN "update"
                                    ELSE "remove",
                             !.action = action,
                             !.issue_num = lb.payload.issue.number,
                             !.formatted = f.value, !.todo = f.value,
                             !.trace = Append(@, "label_action")]
    /\ UNCHANGED calls

add_result_truthy(status_code) == "Added labels successfully"

\* add_github_labels, lines 139-145: what is returned for a response
add_result(status_code) ==
    IF status_code = 200 THEN "Added labels successfully" ELSE "Failed to add labels"

\* add_github_labels, lines 135-145
AddLabels ==
    /\ lb.pc = "add"
    /\ \E status \in {200, 404} :
        /\ calls' = Append(calls, [by |-> 0, api |-> "github.add_labels",
                                   arg |-> [issue |-> lb.issue_num, labels |-> lb.formatted],
                                   answer |-> status])
        /\ lb' = LabelReturned(lb, "add", add_result(status))

\* update_github_labels, lines 179-189
UpdateLabels ==
    /\ lb.pc = "update"
    /\ \E status \in {200, 404} :
        /\ calls' = Append(calls, [by |-> 0, api |-> "github.update_labels",
                                   arg |-> [issue |-> lb.issue_num, labels |-> lb.formatted],
                                   answer |-> status])
        /\ lb' = LabelReturned(lb, "update",
                    IF status = 200 THEN "Updated labels successfully"
                    ELSE "Failed to update labels")

\* one pass of the loop of remove_github_labels, lines 159-168
RemoveLabel ==
    /\ lb.pc = "remove"
    /\ \E status \in {200, 404} :
        /\ calls' = Append(calls, [by |-> 0, api |-> "github.remove_label",
                                   arg |-> [issue |-> lb.issue_num,
                                            labels |-> <<Head(lb.todo)>>],
                                   answer |-> status])
        /\ lb' = IF status # 200
                 THEN LabelReturned(lb, "remove", "Failed to remove labels")
                 ELSE IF Len(lb.todo) = 1
                 THEN LabelReturned([lb EXCEPT !.todo = <<>>], "remove",
                                    "Removed labels successfully")
                 ELSE [lb EXCEPT !.todo = Tail(@), !.trace = Append(@, "remove")]

TokOff ==
    /\ tokPc = "off"
    /\ tokIn = <<>>
    /\ tokLabels = <<>>
    /\ tokJobs = <<>>

Init == InitCI /\ InitLabel /\ TokOff

\* one invocation of the CI Bot
Next ==
    \/ Receive(1) /\ UNCHANGED <<lb, tokVars>>
    \/ ExtractEventType(1) /\ UNCHANGED <<lb, tokVars>>
    \/ SecureWebhook(1) /\ UNCHANGED <<lb, tokVars>>
    \/ LoadPayload(1) /\ UNCHANGED <<lb, tokVars>>
    \/ FilterEvent(1) /\ UNCHANGED <<lb, tokVars>>
    \/ ParseCommand(1) /\ UNCHANGED <<lb, tokVars>>
    \/ ValidityGate(1) /\ UNCHANGED <<lb, tokVars>>
    \/ Authorize(1) /\ UNCHANGED <<lb, tokVars>>
    \/ GetJenkinsObj(1) /\ UNCHANGED <<lb, tokVars>>
    \/ TriggerJob(1) /\ UNCHANGED <<lb, tokVars>>
    \/ FinishTriggerCi(1) /\ UNCHANGED <<lb, tokVars>>
    \/ CreateComment(1) /\ UNCHANGED <<lb, tokVars>>

Spec == Init /\ [][Next]_vars

\* one invocation of the Label Bot
NextLabel ==
    \/ LabelReceive /\ UNCHANGED <<ci, tokVars>>
    \/ LabelExtract /\ UNCHANGED <<ci, tokVars>>
    \/ LabelParse /\ UNCHANGED <<ci, tokVars>>
    \/ FindAllLabels /\ UNCHANGED <<ci, tokVars>>
    \/ LabelAction /\ UNCHANGED <<ci, tokVars>>
    \/ AddLabels /\ UNCHANGED <<ci, tokVars>>
    \/ UpdateLabels /\ UNCHANGED <<ci, tokVars>>
    \/ RemoveLabel /\ UNCHANGED <<ci, tokVars>>

SpecLabel == Init /\ [][NextLabel]_vars

\* one delivery, handled by the CI Bot or by the Label Bot
NextBots ==
    \/ lb.pc = "idle" /\ Next
    \/ ci[1].pc = "idle" /\ NextLabel

SpecBots == Init /\ [][NextBots]_vars

\* The deliveries of comments that run one job, correctly signed: the comment
\* of the issue author and the comment of a committer
RunClang(author) ==
    [action |-> "created",
     comment |-> [body |-> Mention \o Sp \o RunCi \o Sp \o <<"[">> \o Clang \o <<"]">>,
                  user |-> [login |-> author]],
     issue |-> [number |-> 42, user |-> [login |-> Alice]]]

RunClangEnvelopes ==
    {[headers |-> Headers("issue_comment",
                          [prefix |-> Sha1Tag,
                           hex |-> HmacSha1(webhook_secret, json_dumps(RunClang(author)))]),
      body |-> json_dumps(RunClang(author))] : author \in {Alice, Carol}}

\* a handler is called with one of these deliveries
ReceiveRunClang(w) ==
    /\ ci[w].pc = "idle"
    /\ \E e \in RunClangEnvelopes :
        ci' = [ci EXCEPT ![w] = [@ EXCEPT !.pc = "event_type", !.event = e]]
    /\ UNCHANGED calls

\* One step of one invocation of the CI Bot. Each invocation has its own CIBot
\* and its own locals; the services called are the only things they share.
Step(w) ==
    \/ ExtractEventType(w)
    \/ SecureWebhook(w)
    \/ LoadPayload(w)
    \/ FilterEvent(w)
    \/ ParseCommand(w)
    \/ ValidityGate(w)
    \/ Authorize(w)
    \/ GetJenkinsObj(w)
    \/ TriggerJob(w)
    \/ FinishTriggerCi(w)
    \/ CreateComment(w)

\* two invocations of the CI Bot running side by side, their steps interleaved
NextTwo ==
    \/ \E w \in Workers : ReceiveRunClang(w) /\ UNCHANGED <<lb, tokVars>>
    \/ \E w \in Workers : Step(w) /\ UNCHANGED <<lb, tokVars>>

SpecTwo == Init /\ [][NextTwo]_vars

(***************************************************************************)
(* The tokenizers applied to bounded argument texts                        *)
(***************************************************************************)
MaxArgLen == 5

ArgAlphabet == {",", " ", "\t", "a", "B"}

RECURSIVE StringsUpTo(_, _)
StringsUpTo(alphabet, n) ==
    IF n = 0 THEN {<<>>}
    ELSE LET shorter == StringsUpTo(alphabet, n - 1)
         IN  shorter \cup {Append(s, c) : s \in {t \in shorter : Len(t) = n - 1},
                                          c \in alphabet}

\* "[sAMpLe LAbEl, another Label, fInal]" of test_labelbot.py, with shorter words
TestTokenize2 ==
    <<"[","s","A","m"," ","L","a","B",","," ","a","n"," ","L","b",","," ","f","I","n","]">>

BracketedTexts ==
    {<<"[">> \o s \o <<"]">> : s \in StringsUpTo(ArgAlphabet, MaxArgLen)}
        \cup {TestTokenize2}

InitTok ==
    /\ InitCI
    /\ InitLabel
    /\ tokPc = "input"
    /\ tokIn \in BracketedTexts
    /\ tokLabels = <<>>
    /\ tokJobs = <<>>

Tokenize ==
    /\ tokPc = "input"
    /\ tokLabels' = tokenize(tokIn)
    /\ tokJobs' = parse_jobs_from_comment(tokIn)
    /\ tokPc' = "done"
    /\ UNCHANGED <<tokIn, ci, lb, calls>>

NextTok == Tokenize

SpecTok == InitTok /\ [][NextTok]_vars

(***************************************************************************)
(* Properties                                                              *)
(***************************************************************************)
Range(seq) == {seq[i] : i \in 1..Len(seq)}

\* the requests invocation w sent, and those it sent to one API
CallsBy(w) == SelectSeq(calls, LAMBDA c : c.by = w)
CallsTo(w, apis) == SelectSeq(calls, LAMBDA c : c.by = w /\ c.api \in apis)

JenkinsApis == {"jenkins.connect", "jenkins.invoke", "jenkins.rescan"}
LabelStoreApis == {"github.add_labels", "github.remove_label", "github.update_labels"}

\* stage a ran before stage b in the trace
Before(trace, a, b) ==
    \E i, j \in 1..Len(trace) : i < j /\ trace[i] = a /\ trace[j] = b

HasEventType(e) == "X-GitHub-Event" \in DOMAIN e.headers
HasSignature(e) == "X-Hub-Signature" \in DOMAIN e.headers

\* the signature sent is the HMAC-SHA1 digest of the body sent, keyed by the
\* bot's secret, bare or behind the tag sha1=
GenuineSignature(e) ==
    /\ HasSignature(e)
    /\ e.headers["X-Hub-Signature"].prefix \in {<<>>, Sha1Tag}
    /\ e.headers["X-Hub-Signature"].hex = HmacSha1(webhook_secret, e.body)

\* the body sent is an issue comment of the given author that runs the given
\* jobs on an issue
IsCommand(e, author, jobs) ==
    /\ e.body.json
    /\ {"comment", "issue"} \subseteq DOMAIN e.body.text
    /\ e.body.text.action = "created"
    /\ e.body.text.comment.user.login = author
    /\ e.body.text.comment.body = Mention \o Sp \o RunCi \o Sp \o <<"[">> \o jobs \o <<"]">>

\* C1: in the CI Bot the signature is validated before json.loads is applied to
\* the body, and an invocation that ends because the signature does not match,
\* or because the body is not JSON, ends by an exception without having sent a
\* request to any external service (comment, team lookup, Jenkins).
C1_SignatureBeforeJson ==
    \A w \in Workers :
        LET c == ci[w]
            e == c.event
        IN  /\ "json.loads" \in Range(c.trace)
                => /\ Before(c.trace, "secure_webhook", "json.loads")
                   /\ c.secured
            /\ c.outcome = "raised"
                  /\ c.error \in {"Failed to validate WebHook security",
                                  "Decoding JSON for payload failed"}
                => CallsBy(w) = <<>>
            /\ c.pc # "idle" /\ HasSignature(e) /\ ~GenuineSignature(e)
                => /\ "json.loads" \notin Range(c.trace)
                   /\ CallsBy(w) = <<>>
                   /\ c.pc = "done" /\ HasEventType(e)
                        => /\ c.outcome = "raised"
                           /\ c.error = "Failed to validate WebHook security"
            /\ c.pc = "done" /\ HasEventType(e) /\ GenuineSignature(e) /\ ~e.body.json
                => /\ c.outcome = "raised"
                   /\ c.error = "Decoding JSON for payload failed"
                   /\ CallsBy(w) = <<>>

\* an invocation given the issue author's own "run ci [all]" under a signature
\* made with another secret has ended
C1_Witness ==
    \E w \in Workers :
        /\ ci[w].pc = "done"
        /\ ci[w].error = "Failed to validate WebHook security"
        /\ IsCommand(ci[w].event, Alice, <<"a","l","l">>)
        /\ ci[w].event.headers["X-Hub-Signature"].hex
                = HmacSha1("another-secret", ci[w].event.body)

\* C2: an envelope without X-Hub-Signature fails closed in the CI Bot:
\* _secure_webhook raises, the body is never parsed, and no comment, lookup or
\* CI trigger is sent, whatever the body holds.
C2_UnsignedFailsClosed ==
    \A w \in Workers :
        LET c == ci[w]
            e == c.event
        IN  c.pc # "idle" /\ ~HasSignature(e)
                => /\ ~c.secured
                   /\ "json.loads" \notin Range(c.trace)
                   /\ CallsBy(w) = <<>>
                   /\ c.pc = "done"
                        => /\ c.outcome = "raised"
                           /\ HasEventType(e) => c.error = "WebHook from GitHub is not signed"

\* an invocation given the issue author's own "run ci [all]" without a
\* signature header has ended
C2_Witness ==
    \E w \in Workers :
        /\ ci[w].pc = "done"
        /\ ~HasSignature(ci[w].event)
        /\ ci[w].error = "WebHook from GitHub is not signed"
        /\ IsCommand(ci[w].event, Alice, <<"a","l","l">>)

\* C3: _secure_webhook returns true exactly when the value sent, its sha1= tag
\* removed, is the HMAC-SHA1 digest of the body under the bot's secret; a digest
\* computed over another body or with another secret gives false.
C3_SignatureValidation ==
    \A w \in Workers :
        LET c == ci[w]
            e == c.event
        IN  "secure_webhook" \in Range(c.trace) /\ HasSignature(e)
                => /\ c.secured <=> GenuineSignature(e)
                   /\ (\/ e.headers["X-Hub-Signature"].hex.hmac_sha1_key # webhook_secret
                       \/ e.headers["X-Hub-Signature"].hex.of # e.body)
                      => ~c.secured

\* a signature "sha1=<digest>" has been accepted
C3_Witness ==
    \E w \in Workers :
        /\ "secure_webhook" \in Range(ci[w].trace)
        /\ ci[w].secured
        /\ ci[w].event.headers["X-Hub-Signature"].prefix = Sha1Tag

\* C4: when the comment author is the author of the issue, the CI Bot's
\* authorization gate grants and _trigger_ci is entered, whatever the team
\* lookup answers and whether or not it succeeds.
C4_IssueAuthorAlwaysAuthorized ==
    \A w \in Workers :
        LET c == ci[w]
        IN  /\ c.pc = "done"
            /\ "authorize" \in Range(c.trace)
            /\ c.comment_author = c.pr_author
            => "trigger_ci" \in Range(c.trace)

\* create_comment returned, True or False, for every comment w sent
CommentsReturned(w) ==
    LET comments == CallsTo(w, {"github.create_comment"})
    IN  \A i \in 1..Len(comments) : ~create_comment(comments[i].answer).raised

\* the comment of the invocation is by someone who neither opened the issue
\* nor is a committer
Unprivileged(e) ==
    /\ e.body.json
    /\ {"comment", "issue"} \subseteq DOMAIN e.body.text
    /\ e.body.text.comment.user.login # e.body.text.issue.user.login
    /\ e.body.text.comment.user.login \notin MXNetCommitters

\* C5: when the comment author is neither the issue author nor a committer, the
\* CI Bot sends nothing to Jenkins (no trigger, no rescan), and once the team
\* lookup has answered, the invocation posts exactly one comment, the denial
\* naming PR Author, MXNet Committer and Jenkins Admin, on the issue, and
\* returns when create_comment returns.
C5_UnauthorizedDenied ==
    \A w \in Workers :
        LET c == ci[w]
            lookups == CallsTo(w, {"github.has_in_members"})
            comments == CallsTo(w, {"github.create_comment"})
        IN  c.pc # "idle" /\ Unprivileged(c.event)
                => /\ CallsTo(w, JenkinsApis) = <<>>
                   /\ "trigger_ci" \notin Range(c.trace)
                   /\ c.pc = "done" /\ lookups # <<>> /\ lookups[1].answer # "error"
                        => /\ CommentsReturned(w) => c.outcome = "returned"
                           /\ Len(comments) = 1
                           /\ comments[1].arg.issue = c.event.body.text.issue.number
                           /\ comments[1].arg.message = UnauthorizedMessage

\* mallory's "run ci [all]" on alice's issue has been answered by the denial
C5_Witness ==
    \E w \in Workers :
        /\ ci[w].pc = "done"
        /\ IsCommand(ci[w].event, Mallory, <<"a","l","l">>)
        /\ \E i \in 1..Len(calls) :
                /\ calls[i].by = w
                /\ calls[i].api = "github.create_comment"
                /\ calls[i].answer = 201
                /\ calls[i].arg.message.text = UnauthorizedMessage.text

\* C6: a label add, remove or update request reaches the label store only when
\* the comment author opened the issue or is a member of the privileged group.
C6_LabelChangeOnlyByAuthorized ==
    \A i \in 1..Len(calls) :
        calls[i].by = 0 /\ calls[i].api \in LabelStoreApis
            => \/ lb.payload.comment.user.login = lb.payload.issue.user.login
               \/ lb.payload.comment.user.login \in MXNetCommitters

\* C7: when the jobs asked for are not exactly [all] and none of them is a
\* supported job, the CI Bot posts one comment naming the jobs entered and the
\* supported jobs, raises (the exception of line 278 when create_comment
\* returns), and sends nothing to Jenkins.
C7_UnsupportedJobsRejected ==
    \A w \in Workers :
        LET c == ci[w]
            comments == CallsTo(w, {"github.create_comment"})
        IN  /\ c.user_jobs # <<>>
            /\ c.user_jobs # << <<"a","l","l">> >>
            /\ Range(c.user_jobs) \cap find_all_jobs = {}
            => /\ CallsTo(w, JenkinsApis \cup {"github.has_in_members"}) = <<>>
               /\ c.pc = "done"
                    => /\ c.outcome = "raised"
                       /\ CommentsReturned(w)
                            => c.error = "Provided jobs don't match the ones supported by CI"
                       /\ Len(comments) = 1
                       /\ comments[1].arg.issue = c.issue_num
                       /\ comments[1].arg.message.text = UnsupportedJobsMessage(<<>>, {}).text
                       /\ comments[1].arg.message.args = <<Range(c.user_jobs), c.all_jobs>>
                       /\ c.all_jobs # {}

\* "run ci [typo]" has been rejected
C7_Witness ==
    \E w \in Workers :
        /\ ci[w].pc = "done"
        /\ ci[w].user_jobs = <<Typo>>
        /\ ci[w].error = "Provided jobs don't match the ones supported by CI"
        /\ CallsTo(w, {"github.create_comment"}) # <<>>

\* C8: the request [all] makes the jobs to trigger the whole supported set, and
\* an authorized invocation that returns has triggered every supported job.
C8_AllExpansion ==
    \A w \in Workers :
        LET c == ci[w]
            sent == CallsTo(w, {"jenkins.invoke", "jenkins.rescan"})
        IN  c.user_jobs = << <<"a","l","l">> >> /\ "validate" \in Range(c.trace)
                => /\ c.all_jobs # {}
                   /\ c.valid_jobs = c.all_jobs
                   /\ "trigger_ci" \in Range(c.trace) /\ c.outcome = "returned"
                        => /\ {sent[i].arg.job : i \in 1..Len(sent)} = c.all_jobs
                           /\ Range(c.success_jobs) = c.all_jobs

\* the issue author's "run ci [all]" has returned with more than one job sent
\* to Jenkins
C8_Witness ==
    \E w \in Workers :
        /\ ci[w].pc = "done"
        /\ ci[w].outcome = "returned"
        /\ ci[w].user_jobs = << <<"a","l","l">> >>
        /\ ci[w].comment_author = Alice
        /\ Len(CallsTo(w, {"jenkins.invoke"})) > 1
        /\ Len(ci[w].success_jobs) = Cardinality(find_all_jobs)

\* C9: in the Label Bot, for every requested label list and every known label
\* set, the gate does not fail, and an add request sends the label store exactly
\* the requested labels whose lower-cased name is a known label.
C9_LabelGateNeverFails ==
    /\ lb.pc = "done"
    /\ "find_all_labels" \in Range(lb.trace)
    /\ lb.action = <<"a","d","d">>
    => LET sent == CallsTo(0, {"github.add_labels"})
       IN  /\ lb.outcome = "returned"
           /\ Len(sent) = 1
           /\ Range(sent[1].arg.labels)
                = {l \in Range(lb.labels) : Lower(l) \in lb.all_labels}

(***************************************************************************)
(* What a tokenizer is to return for the text between the brackets         *)
(***************************************************************************)
\* the positions of t that hold x-characters, and the k-th of them
PositionsIn(t, x) == {i \in 1..Len(t) : t[i] \in x}
Kth(positions, k) == CHOOSE i \in positions : Cardinality({j \in positions : j <= i}) = k

\* the k-th comma-separated argument of the text t
Argument(t, k) ==
    LET commas == PositionsIn(t, {","})
        from == IF k = 1 THEN 1 ELSE Kth(commas, k - 1) + 1
        to == IF k = Cardinality(commas) + 1 THEN Len(t) ELSE Kth(commas, k) - 1
    IN  SubSeq(t, from, to)

\* token is the argument trimmed, its whitespace runs collapsed to one space and
\* its letters in lower case
IsNormalized(token, argument) ==
    LET inToken == {i \in 1..Len(token) : token[i] # " "}
        inArgument == {i \in 1..Len(argument) : argument[i] \notin Whitespace}
    IN  /\ \A i \in 1..Len(token) :
                /\ token[i] \notin Whitespace \ {" "}
                /\ token[i] \notin Range(UpperLetters)
                /\ token[i] = " " => i \in 2..(Len(token) - 1) /\ token[i + 1] # " "
        /\ Cardinality(inToken) = Cardinality(inArgument)
        /\ \A k \in 1..Cardinality(inToken) :
                LET i == Kth(inToken, k)
                    j == Kth(inArgument, k)
                IN  /\ token[i] = LowerChar(argument[j])
                    /\ k > 1 => (token[i - 1] = " " <=> argument[j - 1] \in Whitespace)

IsTokenization(tokens, text) ==
    LET t == SubSeq(text, 2, Len(text) - 1)
    IN  /\ Len(tokens) = Cardinality(PositionsIn(t, {","})) + 1
        /\ \A k \in 1..Len(tokens) : IsNormalized(tokens[k], Argument(t, k))

\* C10: for every bracketed argument text, LabelBot.tokenize and
\* CIBot._parse_jobs_from_comment return the comma-separated arguments in order,
\* each trimmed, its whitespace runs collapsed and its letters in lower case.
C10_Tokenization ==
    tokPc = "done"
        => /\ IsTokenization(tokLabels, tokIn)
           /\ IsTokenization(tokJobs, tokIn)

\* the body sent is a payload whose comment is written by login
CommentBy(e, login) ==
    /\ e.body.json
    /\ "comment" \in DOMAIN e.body.text
    /\ e.body.text.comment.user.login = login

\* C11: in the CI Bot and in the Label Bot, a delivery whose comment is written
\* by the bot's own account does not get past payload extraction: no command is
\* parsed from it and no request (comment, label change, lookup, CI trigger) is
\* sent, whatever the comment body holds.
C11_SelfTriggerGuard ==
    /\ \A w \in Workers :
            ci[w].pc # "idle" /\ CommentBy(ci[w].event, bot_user)
                => /\ "parse" \notin Range(ci[w].trace)
                   /\ ci[w].user_jobs = <<>>
                   /\ CallsBy(w) = <<>>
    /\ lb.pc # "idle" /\ CommentBy(lb.event, label_bot_user)
            => /\ "parse" \notin Range(lb.trace)
               /\ lb.labels = <<>>
               /\ CallsBy(0) = <<>>

\* C12: a correctly signed delivery of the CI Bot with a JSON body whose event
\* type is not issue_comment, or whose payload action is deleted, ends by
\* parse_webhook_data returning, with no comment posted, no lookup and no job
\* triggered.
C12_OtherEventsIgnored ==
    \A w \in Workers :
        LET c == ci[w]
            e == c.event
        IN  /\ c.pc = "done"
            /\ HasEventType(e)
            /\ GenuineSignature(e)
            /\ e.body.json
            /\ \/ e.headers["X-GitHub-Event"] # "issue_comment"
               \/ "action" \in DOMAIN e.body.text /\ e.body.text.action = "deleted"
            => /\ c.outcome = "returned"
               /\ CallsBy(w) = <<>>

\* the delivery is an issue_comment whose body is a payload with a comment
IsIssueComment(e) ==
    /\ HasEventType(e)
    /\ e.headers["X-GitHub-Event"] = "issue_comment"
    /\ e.body.json
    /\ "comment" \in DOMAIN e.body.text

C14_UndefinedActionHelp ==
    \A w \in Workers :
        LET c == ci[w]
            e == c.event
            comments == CallsTo(w, {"github.create_comment"})
        IN  /\ "parse" \in Range(c.trace)
            /\ IsIssueComment(e)
            /\ Find(Lower(e.body.text.comment.body), Mention) # -1
            /\ action_of(phrase_of(e.body.text.comment.body)) # RunCi
            => /\ CallsTo(w, JenkinsApis \cup {"github.has_in_members"}) = <<>>
               /\ "validate" \notin Range(c.trace)
               /\ CallsBy(w) = comments
               /\ c.outcome # "returned"
               /\ c.pc = "comment" => comments = <<>> /\ c.message = UndefinedActionMessage
               /\ c.pc = "done"
                    => /\ c.outcome = "raised"
                       /\ CommentsReturned(w) => c.error = "Undefined action by user"
                       /\ Len(comments) = 1
                       /\ comments[1].arg.issue = e.body.text.issue.number
                       /\ comments[1].arg.message = UndefinedActionMessage

\* alice's "@mxnet-ci-bot build [clang]" has been answered by the help comment
\* and the invocation has raised
C14_Witness ==
    \E w \in Workers :
        /\ ci[w].pc = "done"
        /\ ci[w].error = "Undefined action by user"
        /\ ci[w].action = <<"b","u","i","l","d">>
        /\ ci[w].comment_author = Alice
        /\ \E i \in 1..Len(calls) :
                /\ calls[i].by = w
                /\ calls[i].api = "github.create_comment"
                /\ calls[i].answer = 201
                /\ calls[i].arg.message = UndefinedActionMessage

\* the comment body has no bracketed list, or a list with nothing but white
\* space between the brackets
EmptyArguments(body) ==
    LET open == Find(body, <<"[">>)
        close == RFind(body, <<"]">>)
    IN  \/ open = -1
        \/ close < open
        \/ \A i \in (open + 2)..close : body[i] \in Whitespace

\* C15: in both bots an issue comment that mentions the bot and has an empty
\* argument list ([], or no bracketed list) never reaches the executor: the CI
\* Bot sends nothing to Jenkins and the Label Bot sends no add, remove or update
\* request to the label store.
C15_EmptyArgumentsRejected ==
    /\ \A w \in Workers :
            LET c == ci[w]
                e == c.event
            IN  /\ c.pc # "idle"
                /\ IsIssueComment(e)
                /\ Find(Lower(e.body.text.comment.body), Mention) # -1
                /\ EmptyArguments(e.body.text.comment.body)
                => /\ CallsTo(w, JenkinsApis) = <<>>
                   /\ "trigger_ci" \notin Range(c.trace)
    /\ /\ lb.pc # "idle"
       /\ IsIssueComment(lb.event)
       /\ Find(lb.event.body.text.comment.body, LabelMention) # -1
       /\ EmptyArguments(lb.event.body.text.comment.body)
       => CallsTo(0, LabelStoreApis) = <<>>

\* the jobs whose invocation by w failed for another reason than UnknownJob
FailedJobs(w) ==
    LET sent == CallsTo(w, {"jenkins.invoke"})
    IN  {sent[i].arg.job : i \in {k \in 1..Len(sent) : sent[k].answer = "error"}}

\* C16: when the invocation of a job fails for another reason than the job not
\* being discovered, _trigger_ci does not raise, every other validated job is
\* still attempted, and the jobs it returns are the validated jobs but the
\* failed ones.
C16_JobFailureIsolated ==
    \A w \in Workers :
        LET c == ci[w]
            sent == CallsTo(w, {"jenkins.invoke", "jenkins.rescan"})
        IN  c.pc = "done" /\ FailedJobs(w) # {}
                => /\ c.error # "Jenkins unable to trigger"
                   /\ {sent[i].arg.job : i \in 1..Len(sent)} = c.valid_jobs
                   /\ Range(c.success_jobs) = c.valid_jobs \ FailedJobs(w)

C18_LabelCallsIndependent ==
    /\ lb.pc = "done"
    /\ lb.action = <<"r","e","m","o","v","e">>
    /\ lb.formatted # <<>>
    => LET sent == CallsTo(0, {"github.remove_label"})
       IN  /\ [i \in 1..Len(sent) |-> sent[i].arg.labels[1]] = lb.formatted
           /\ CallsTo(0, {"github.add_labels", "github.update_labels"}) = <<>>

\* C19: an add, remove or update operation of the Label Bot on labels of the
\* repository returns the success text of the operation when every request to
\* the label store was answered 200, and its failure text, which is none of the
\* success texts, when a request was answered otherwise.
C19_LabelResultReported ==
    /\ lb.pc = "done"
    /\ lb.outcome = "returned"
    /\ lb.formatted # <<>>
    => LET sent == CallsTo(0, LabelStoreApis)
           verb == lb.action
           succeeded == IF verb = <<"a","d","d">> THEN "Added labels successfully"
                        ELSE IF verb = <<"r","e","m","o","v","e">>
                        THEN "Removed labels successfully"
                        ELSE "Updated labels successfully"
           failed == IF verb = <<"a","d","d">> THEN "Failed to add labels"
                     ELSE IF verb = <<"r","e","m","o","v","e">>
                     THEN "Failed to remove labels"
                     ELSE "Failed to update labels"
       IN  /\ sent # <<>>
           /\ (\A i \in 1..Len(sent) : sent[i].answer = 200)
                => /\ lb.result = succeeded
                   /\ verb = <<"r","e","m","o","v","e">> => Len(sent) = Len(lb.formatted)
           /\ (\E i \in 1..Len(sent) : sent[i].answer # 200)
                => /\ lb.result = failed
                   /\ lb.result \notin {"Added labels successfully",
                                        "Removed labels successfully",
                                        "Updated labels successfully"}

\* the request to add the label bug has been answered 404 and the operation
\* has returned
C19_Witness ==
    /\ lb.pc = "done"
    /\ lb.action = <<"a","d","d">>
    /\ lb.formatted = <<Bug>>
    /\ lb.result = "Failed to add labels"
    /\ \E i \in 1..Len(calls) :
            calls[i].api = "github.add_labels" /\ calls[i].answer = 404

\* C20: when the Label Bot is given the comment "@mxnet-label-bot, add [bug,
\* enhancement]" on issue 42 with the known labels bug, enhancement and doc, and
\* the handler has ended, the label store has received one add request for
\* issue 42 with the labels bug and enhancement, and once that request has been
\* answered 200 a comment is posted to issue 42 after it.
C20_LabelEndToEnd ==
    /\ lb.pc = "done"
    /\ IsIssueComment(lb.event)
    /\ lb.event.body.text.comment.body
            = LabelMention \o <<","," ","a","d","d"," ","[">> \o Bug \o <<","," ">>
                    \o Enhancement \o <<"]">>
    /\ lb.all_labels = {Bug, Enhancement, Doc}
    => LET adds == {i \in 1..Len(calls) : calls[i].by = 0 /\ calls[i].api \in LabelStoreApis}
       IN  /\ Cardinality(adds) = 1
           /\ \A i \in adds :
                /\ calls[i].api = "github.add_labels"
                /\ calls[i].arg = [issue |-> 42, labels |-> <<Bug, Enhancement>>]
                /\ calls[i].answer = 200
                    => \E j \in (i + 1)..Len(calls) :
                            /\ calls[j].by = 0
                            /\ calls[j].api = "github.create_comment"
                            /\ calls[j].arg.issue = 42

\* C21: an invocation of the CI Bot sends at most one comment; when the post is
\* not answered 201 the invocation ends as it ends when the comment is created
\* (it returns, or raises the exception that follows the comment in the code),
\* and the jobs triggered are the jobs named in the comment.
C21_CommentBestEffort ==
    \A w \in Workers :
        LET c == ci[w]
            comments == CallsTo(w, {"github.create_comment"})
            all == CallsBy(w)
        IN  /\ Len(comments) <= 1
            /\ comments # <<>> => all[Len(all)].api = "github.create_comment"
            /\ c.pc = "done" /\ comments # <<>> /\ comments[1].answer # 201
                => /\ IF c.after = "" THEN c.outcome = "returned"
                      ELSE c.outcome = "raised" /\ c.error = c.after
                   /\ c.success_jobs # <<>>
                        => comments[1].arg.message = TriggeredMessage(c.success_jobs)

\* the requests of invocation w without the name of the invocation
Requests(w) ==
    LET mine == CallsBy(w)
    IN  [i \in 1..Len(mine) |-> [api |-> mine[i].api, arg |-> mine[i].arg]]
Answers(w) ==
    LET mine == CallsBy(w)
    IN  [i \in 1..Len(mine) |-> mine[i].answer]

\* C22: two invocations of the CI Bot given authorized "run ci [clang]" comments
\* are not deduplicated and do not depend on each other: every invocation whose
\* executor ran and that returned has sent its own trigger (or rescan) request
\* for the job clang of issue 42, whatever the other invocation has done, and
\* two invocations with the same delivery, at the same point, whose own requests
\* got the same answers are in the same state.
C22_ConcurrentNotDeduplicated ==
    /\ \A w \in Workers :
            LET c == ci[w]
                mine == CallsTo(w, {"jenkins.invoke", "jenkins.rescan"})
            IN  c.pc = "done" /\ c.outcome = "returned" /\ "trigger_ci" \in Range(c.trace)
                    => /\ Len(mine) = 1
                       /\ mine[1].arg = [job |-> Clang, pr |-> 42]
                       /\ c.success_jobs = <<Clang>>
    /\ \A v, w \in Workers :
            /\ ci[v].event = ci[w].event
            /\ ci[v].pc = ci[w].pc
            /\ ci[v].trace = ci[w].trace
            /\ Requests(v) = Requests(w)
            /\ Answers(v) = Answers(w)
            => ci[v] = ci[w]

\* alice's comment "run ci [clang]" was handled by two invocations, both have
\* returned, and Jenkins has invoked the job clang of issue 42 twice
C22_Witness ==
    /\ \A w \in Workers :
            /\ ci[w].pc = "done"
            /\ ci[w].outcome = "returned"
            /\ IsCommand(ci[w].event, Alice, Clang)
    /\ ci[1].event = ci[2].event
    /\ LET sent == SelectSeq(calls, LAMBDA c : c.api = "jenkins.invoke")
       IN  /\ Len(sent) = 2
           /\ sent[1].by # sent[2].by
           /\ sent[1].arg = sent[2].arg
           /\ sent[1].answer = "invoked" /\ sent[2].answer = "invoked"

\* the place of a stage of parse_webhook_data in the pipeline: signature
\* validation, payload extraction, event filter, command parsing, validity
\* gate, authorization gate, executor, reporter
StageRank(stage) ==
    CASE stage = "secure_webhook" -> 1
      [] stage = "json.loads" -> 2
      [] stage = "filter" -> 3
      [] stage = "parse" -> 4
      [] stage = "validate" -> 5
      [] stage = "authorize" -> 6
      [] stage \in {"trigger_ci", "trigger_job"} -> 7
      [] stage = "create_comment" -> 8
      [] OTHER -> 0

ApiRank(api) ==
    CASE api = "github.has_in_members" -> 6
      [] api \in JenkinsApis -> 7
      [] api = "github.create_comment" -> 8
      [] OTHER -> 0

C24_TriggeredJobsSupportedOnce ==
    \A w \in Workers :
        LET c == ci[w]
            sent == CallsTo(w, {"jenkins.invoke", "jenkins.rescan"})
        IN  /\ \A i \in 1..Len(sent) :
                    /\ sent[i].arg.job \in c.all_jobs
                    /\ sent[i].arg.job \in find_all_jobs
                    /\ sent[i].arg.job \in c.valid_jobs
                    /\ \/ c.user_jobs = << <<"a","l","l">> >>
                       \/ sent[i].arg.job \in Range(c.user_jobs)
                    /\ sent[i].arg.pr = c.issue_num
            /\ \A i, j \in 1..Len(sent) : sent[i].arg.job = sent[j].arg.job => i = j
            /\ Len(c.success_jobs) = Cardinality(Range(c.success_jobs))

\* the issue author's "run ci [edge, edge]" has returned: the job edge was sent
\* to Jenkins once
C24_Witness ==
    \E w \in Workers :
        /\ ci[w].pc = "done"
        /\ ci[w].outcome = "returned"
        /\ ci[w].user_jobs = <<Edge, Edge>>
        /\ Len(CallsTo(w, {"jenkins.invoke", "jenkins.rescan"})) = 1
        /\ ci[w].success_jobs = <<Edge>>

\* C25: whenever _trigger_ci has returned, the list it returned holds every job
\* it was given, once, so the comment that follows names them, and the comment
\* "Authorized user recognized. However, the bot is unable to trigger CI." is
\* never chosen and never sent.
C25_TriggerCiReturnsAllJobs ==
    /\ \A w \in Workers :
            LET c == ci[w]
            IN  /\ c.message # UnableMessage
                /\ "trigger_ci" \in Range(c.trace) /\ c.pc \in {"comment", "done"}
                   /\ c.error \notin {"JenkinsAPIException", "Jenkins unable to trigger"}
                        => /\ c.valid_jobs # {}
                           /\ Range(c.success_jobs) = c.valid_jobs
                           /\ Len(c.success_jobs) = Cardinality(c.valid_jobs)
                           /\ c.message = TriggeredMessage(c.success_jobs)
    /\ \A i \in 1..Len(calls) :
            calls[i].api = "github.create_comment"
                => calls[i].arg.message.text # UnableMessage.text

\* _trigger_ci has returned the one job of alice's "run ci [clang]" and the
\* comment naming it has been created
C25_Witness ==
    \E w \in Workers :
        /\ ci[w].pc = "done"
        /\ IsCommand(ci[w].event, Alice, Clang)
        /\ ci[w].success_jobs = <<Clang>>
        /\ \E i \in 1..Len(calls) :
                /\ calls[i].by = w
                /\ calls[i].api = "github.create_comment"
                /\ calls[i].answer = 201
                /\ calls[i].arg.message = TriggeredMessage(<<Clang>>)

====
